---- MODULE Spec2Model ----
(***************************************************************************)
(* A model of index.js (Maj. Pickletooth): the per-channel conversation    *)
(* memory, the "maggot" flag set with its nickname enforcement, the        *)
(* amnesty command and the response gate.                                  *)
(*                                                                         *)
(* JavaScript strings are modelled as sequences of one-character strings,  *)
(* so that toLowerCase, includes, trim, split and the mention regular      *)
(* expression are computed character by character.  The empty sequence     *)
(* stands for both null and "" (both are falsy, and both mean "no          *)
(* nickname" to the guild).  Probabilities and Math.random() draws are     *)
(* hundredths: a draw is an integer in 0..99 standing for draw/100.        *)
(***************************************************************************)
EXTENDS Integers, Sequences, FiniteSets, Bags, TLC

VARIABLES
  CREATOR_ID,             \* process.env.CREATOR_ID || ""
  MAX_MEMORY_ENTRIES,     \* Number(process.env.MAX_MEMORY_ENTRIES || 14)
  RANDOM_DEGRADE_CHANCE,  \* hundredths
  RANDOM_CHIME_CHANCE,    \* hundredths
  memoryMap,              \* channel id -> sequence of [speaker, text]
  fs,                     \* the data directory: path -> file content
  aliasMap,               \* user id -> callsign
  manualLog,              \* the manual log text
  lastResponseByChannel,  \* channel id -> time of the last reply
  maggots,                \* the flag set: entries [id, name, at]
  now,                    \* Date.now(), in seconds
  nickname,               \* the cached GuildMember.nickname of each user
  memberUpdates,          \* GuildMemberUpdate events on their way to the client
  tasks,                  \* handlers suspended at an await
  sent,                   \* the requests the last step issued, in order
  appended                \* history: every turn passed to appendToMemory, per channel

vars == << CREATOR_ID, MAX_MEMORY_ENTRIES, RANDOM_DEGRADE_CHANCE, RANDOM_CHIME_CHANCE,
           memoryMap, fs, aliasMap, manualLog, lastResponseByChannel, maggots, now,
           nickname, memberUpdates, tasks, sent, appended >>

config == << CREATOR_ID, MAX_MEMORY_ENTRIES, RANDOM_DEGRADE_CHANCE, RANDOM_CHIME_CHANCE >>

----------------------------------------------------------------------------
(* Strings *)

Max(a, b) == IF a >= b THEN a ELSE b
Min(a, b) == IF a <= b THEN a ELSE b

NULL == << >>

UpperCase == <<"A","B","C","D","E","F","G","H","I","J","K","L","M",
               "N","O","P","Q","R","S","T","U","V","W","X","Y","Z">>
LowerCase == <<"a","b","c","d","e","f","g","h","i","j","k","l","m",
               "n","o","p","q","r","s","t","u","v","w","x","y","z">>
Digits == {"0","1","2","3","4","5","6","7","8","9"}
WhiteSpace == {" "}

lowerOf ==
  [c \in {UpperCase[i] : i \in 1..Len(UpperCase)} |->
     LowerCase[CHOOSE i \in 1..Len(UpperCase) : UpperCase[i] = c]]

toLowerCaseChar(c) == IF c \in DOMAIN lowerOf THEN lowerOf[c] ELSE c

\* String.prototype.toLowerCase
toLowerCase(s) == [i \in 1..Len(s) |-> toLowerCaseChar(s[i])]

\* String.prototype.includes
includes(s, sub) ==
  \E i \in 0..(Len(s) - Len(sub)) : SubSeq(s, i + 1, i + Len(sub)) = sub

\* String.prototype.startsWith
startsWith(s, p) == Len(s) >= Len(p) /\ SubSeq(s, 1, Len(p)) = p

RECURSIVE trimStart(_)
trimStart(s) == IF s # << >> /\ Head(s) \in WhiteSpace THEN trimStart(Tail(s)) ELSE s

RECURSIVE trimEnd(_)
trimEnd(s) ==
  IF s # << >> /\ s[Len(s)] \in WhiteSpace THEN trimEnd(SubSeq(s, 1, Len(s) - 1)) ELSE s

\* String.prototype.trim
trim(s) == trimEnd(trimStart(s))

\* Array.prototype.slice(start) and String.prototype.slice(start)
slice(arr, start) ==
  LET k == IF start < 0 THEN Max(Len(arr) + start, 0) ELSE Min(start, Len(arr))
  IN  SubSeq(arr, k + 1, Len(arr))

\* String.prototype.split(/\s+/)
RECURSIVE splitWs(_)
splitWs(s) ==
  LET ws == {i \in 1..Len(s) : s[i] \in WhiteSpace}
  IN  IF ws = {} THEN << s >>
      ELSE LET i == CHOOSE x \in ws : \A y \in ws : x <= y
               after == {j \in (i + 1)..Len(s) : s[j] \notin WhiteSpace}
               rest == IF after = {} THEN << >>
                       ELSE SubSeq(s, CHOOSE x \in after : \A y \in after : x <= y, Len(s))
           IN  << SubSeq(s, 1, i - 1) >> \o splitWs(rest)

\* the mention match without the optional "!": /<@([0-9]+)>/
matchMention_NoBang(tok) ==
  LET stop(i) == LET nd == {e \in (i + 2)..Len(tok) : tok[e] \notin Digits}
                 IN  IF nd = {} THEN Len(tok) + 1
                     ELSE CHOOSE e \in nd : \A f \in nd : e <= f
      hit(i)  == /\ i + 1 <= Len(tok)
                 /\ tok[i] = "<"
                 /\ tok[i + 1] = "@"
                 /\ stop(i) > i + 2
                 /\ stop(i) <= Len(tok)
                 /\ tok[stop(i)] = ">"
      hits == {i \in 1..Len(tok) : hit(i)}
  IN  IF hits = {} THEN NULL
      ELSE LET i == CHOOSE x \in hits : \A y \in hits : x <= y
           IN  SubSeq(tok, i + 2, stop(i) - 1)

\* mention.match(/<@!?([0-9]+)>/): the captured digits of the leftmost match,
\* or NULL when the token does not match
matchMention(tok) ==
  LET from(i) == IF i + 2 <= Len(tok) /\ tok[i + 2] = "!" THEN i + 3 ELSE i + 2
      stop(i) == LET nd == {e \in from(i)..Len(tok) : tok[e] \notin Digits}
                 IN  IF nd = {} THEN Len(tok) + 1
                     ELSE CHOOSE e \in nd : \A f \in nd : e <= f
      hit(i)  == /\ i + 1 <= Len(tok)
                 /\ tok[i] = "<"
                 /\ tok[i + 1] = "@"
                 /\ stop(i) > from(i)
                 /\ stop(i) <= Len(tok)
                 /\ tok[stop(i)] = ">"
      hits == {i \in 1..Len(tok) : hit(i)}
  IN  IF hits = {} THEN NULL
      ELSE LET i == CHOOSE x \in hits : \A y \in hits : x <= y
           IN  SubSeq(tok, from(i), stop(i) - 1)

\* the decimal digits of a natural number, as a string
RECURSIVE decimal(_)
decimal(n) ==
  LET d == <<"0","1","2","3","4","5","6","7","8","9">>
  IN  IF n < 10 THEN << d[n + 1] >> ELSE decimal(n \div 10) \o << d[(n % 10) + 1] >>

----------------------------------------------------------------------------
(* Persistence *)

MEMORY_FILE == << "data/memory.json" >>
ALIAS_FILE == << "data/aliases.json" >>
MANUAL_LOG_FILE == << "data/manual_log.txt" >>
\* the temporary path being the committed path itself: the file is written in place
tmpOf_InPlace(filePath) == filePath
tmpOf(filePath) == filePath \o << ".tmp" >>

\* JSON string literal: quoted, with quotes and backslashes escaped
RECURSIVE jsonEscape(_)
jsonEscape(s) ==
  IF s = << >> THEN << >>
  ELSE (IF Head(s) \in {"\"", "\\"} THEN << "\\", Head(s) >> ELSE << Head(s) >>)
       \o jsonEscape(Tail(s))

jsonString(s) == << "\"" >> \o jsonEscape(s) \o << "\"" >>

RECURSIVE flatten(_)
flatten(ss) == IF ss = << >> THEN << >> ELSE Head(ss) \o flatten(Tail(ss))

\* the keys of an object in the order JSON.stringify writes them
RECURSIVE keyOrder(_)
keyOrder(S) ==
  IF S = {} THEN << >>
  ELSE LET k == CHOOSE x \in S : TRUE IN << k >> \o keyOrder(S \ {k})

jsonTurn(t) ==
  << <<"{">>, jsonString(<<"s","p","e","a","k","e","r">>), <<":">>, jsonString(t.speaker), <<",">>,
     jsonString(<<"t","e","x","t">>), <<":">>, jsonString(t.text), <<"}">> >>

jsonTurns(arr) ==
  << <<"[">> >>
  \o flatten([i \in 1..Len(arr) |->
                (IF i > 1 THEN << <<",">> >> ELSE << >>) \o jsonTurn(arr[i])])
  \o << <<"]">> >>

\* JSON.stringify(memoryMap, null, 2) as its sequence of tokens (white space,
\* which JSON.parse skips, is left out)
stringifyMemory(mm) ==
  LET ks == keyOrder(DOMAIN mm)
  IN  << <<"{">> >>
      \o flatten([i \in 1..Len(ks) |->
                    (IF i > 1 THEN << <<",">> >> ELSE << >>)
                    \o << jsonString(ks[i]), <<":">> >> \o jsonTurns(mm[ks[i]])])
      \o << <<"}">> >>

\* fs.writeFileSync(tmp, text); fs.renameSync(tmp, filePath)
writeJsonAtomic(files, filePath, text) ==
  LET written == [p \in DOMAIN files \cup {tmpOf(filePath)} |->
                    IF p = tmpOf(filePath) THEN text ELSE files[p]]
  IN  [p \in (DOMAIN written \ {tmpOf(filePath)}) \cup {filePath} |->
         IF p = filePath THEN written[tmpOf(filePath)] ELSE written[p]]

\* saveMemory writing only when every channel holds an even number of turns
saveMemory_Batched(files, mm) ==
  IF \E c \in DOMAIN mm : Len(mm[c]) % 2 = 1 THEN files
  ELSE writeJsonAtomic(files, MEMORY_FILE, stringifyMemory(mm))

saveMemory(files, mm) == writeJsonAtomic(files, MEMORY_FILE, stringifyMemory(mm))

\* readManualLog(): the text of the log file, "" when it cannot be read
readManualLog(files) ==
  IF MANUAL_LOG_FILE \in DOMAIN files /\ files[MANUAL_LOG_FILE] # << >>
  THEN files[MANUAL_LOG_FILE][1] ELSE NULL

\* the file written by setManualLog(text): the text, as one piece
writeManualLog(files, text) ==
  [p \in DOMAIN files \cup {MANUAL_LOG_FILE} |->
     IF p = MANUAL_LOG_FILE THEN << text >> ELSE files[p]]

\* fs.writeFileSync(path, text) as the system calls it makes: the file is
\* opened and truncated, then the text is written piece by piece
openTruncate(files, path) == [p \in DOMAIN files \cup {path} |-> IF p = path THEN << >> ELSE files[p]]
writeChunk(files, path, piece) == [files EXCEPT ![path] = @ \o piece]
\* fs.renameSync(from, to)
renameSync(files, from, to) ==
  IF from = to THEN files
  ELSE [p \in (DOMAIN files \ {from}) \cup {to} |-> IF p = to THEN files[from] ELSE files[p]]

\* JSON.parse of the inside of a string literal: [ok, val].  A backslash
\* preceded by an even number of backslashes escapes the character after it,
\* which must be a quote or a backslash; a quote must be escaped.
jsonUnescape(s) ==
  LET isBs(i) == s[i] = "\\"
      lastOther(i) == LET o == {j \in 1..(i - 1) : ~isBs(j)}
                      IN  IF o = {} THEN 0 ELSE CHOOSE j \in o : \A k \in o : k <= j
      escaper(i) == isBs(i) /\ ((i - 1 - lastOther(i)) % 2 = 0)
      escaped(i) == i > 1 /\ escaper(i - 1)
      keep == {i \in 1..Len(s) : ~escaper(i)}
      nth(k) == CHOOSE i \in keep : Cardinality({j \in keep : j <= i}) = k
  IN  IF \A i \in 1..Len(s) : ~isBs(i)
      THEN [ok |-> \A i \in 1..Len(s) : s[i] # "\"", val |-> s]
      ELSE [ok |-> \A i \in 1..Len(s) :
                     /\ escaper(i) => (i < Len(s) /\ s[i + 1] \in {"\"", "\\"})
                     /\ (s[i] = "\"") => escaped(i),
            val |-> [k \in 1..Cardinality(keep) |-> s[nth(k)]]]

parseString(tok) ==
  IF Len(tok) >= 2 /\ tok[1] = "\"" /\ tok[Len(tok)] = "\""
  THEN jsonUnescape(SubSeq(tok, 2, Len(tok) - 1))
  ELSE [ok |-> FALSE, val |-> << >>]

ParseError == [ok |-> FALSE, val |-> << >>, rest |-> << >>]

\* JSON.parse of one turn {"speaker": ..., "text": ...} at the head of ts
parseTurn(ts) ==
  IF /\ Len(ts) >= 9
     /\ ts[1] = <<"{">> /\ ts[3] = <<":">> /\ ts[5] = <<",">> /\ ts[7] = <<":">> /\ ts[9] = <<"}">>
     /\ parseString(ts[2]) = [ok |-> TRUE, val |-> <<"s","p","e","a","k","e","r">>]
     /\ parseString(ts[6]) = [ok |-> TRUE, val |-> <<"t","e","x","t">>]
     /\ parseString(ts[4]).ok
     /\ parseString(ts[8]).ok
  THEN [ok |-> TRUE,
        val |-> [speaker |-> parseString(ts[4]).val, text |-> parseString(ts[8]).val],
        rest |-> SubSeq(ts, 10, Len(ts))]
  ELSE ParseError

\* the turns of an array, after its "[" (acc: the turns parsed so far)
RECURSIVE parseTurns(_, _)
parseTurns(ts, acc) ==
  IF ts = << >> THEN ParseError
  ELSE IF acc = << >> /\ Head(ts) = <<"]">>
  THEN [ok |-> TRUE, val |-> << >>, rest |-> Tail(ts)]
  ELSE LET t == parseTurn(ts)
       IN  IF ~t.ok \/ t.rest = << >> THEN ParseError
           ELSE IF Head(t.rest) = <<"]">>
           THEN [ok |-> TRUE, val |-> Append(acc, t.val), rest |-> Tail(t.rest)]
           ELSE IF Head(t.rest) = <<",">>
           THEN parseTurns(Tail(t.rest), Append(acc, t.val))
           ELSE ParseError

\* the members of the memory object, after its "{" (acc: the members so far)
RECURSIVE parseChannels(_, _)
parseChannels(ts, acc) ==
  IF Len(ts) < 3 \/ ~parseString(ts[1]).ok \/ ts[2] # <<":">> \/ ts[3] # <<"[">>
  THEN ParseError
  ELSE LET arr == parseTurns(SubSeq(ts, 4, Len(ts)), << >>)
           key == parseString(ts[1]).val
           got == [c \in DOMAIN acc \cup {key} |-> IF c = key THEN arr.val ELSE acc[c]]
       IN  IF ~arr.ok \/ arr.rest = << >> THEN ParseError
           ELSE IF arr.rest = << <<"}">> >> THEN [ok |-> TRUE, val |-> got, rest |-> << >>]
           ELSE IF Head(arr.rest) = <<",">> THEN parseChannels(Tail(arr.rest), got)
           ELSE ParseError

\* JSON.parse of the memory document
parseMemory(text) ==
  IF text = << <<"{">>, <<"}">> >> THEN [ok |-> TRUE, val |-> << >>, rest |-> << >>]
  ELSE IF text # << >> /\ Head(text) = <<"{">> THEN parseChannels(Tail(text), << >>)
  ELSE ParseError

\* readJsonSafe returning an empty object, not the fallback, for a file that does not parse
readMemorySafe_EmptyOnError(files, fallback) ==
  IF MEMORY_FILE \in DOMAIN files
  THEN IF parseMemory(files[MEMORY_FILE]).ok THEN parseMemory(files[MEMORY_FILE]).val
       ELSE << >>
  ELSE fallback

\* readJsonSafe(MEMORY_FILE, fallback)
readMemorySafe(files, fallback) ==
  IF MEMORY_FILE \in DOMAIN files
  THEN IF parseMemory(files[MEMORY_FILE]).ok THEN parseMemory(files[MEMORY_FILE]).val
       ELSE fallback
  ELSE fallback


\* JSON.stringify(Object.fromEntries(aliasMap), null, 2) as its sequence of tokens
stringifyAliases(am) ==
  LET ks == keyOrder(DOMAIN am)
  IN  << <<"{">> >>
      \o flatten([i \in 1..Len(ks) |->
                    (IF i > 1 THEN << <<",">> >> ELSE << >>)
                    \o << jsonString(ks[i]), <<":">>, jsonString(am[ks[i]]) >>])
      \o << <<"}">> >>

\* saveAliases()
saveAliases(files, am) == writeJsonAtomic(files, ALIAS_FILE, stringifyAliases(am))

\* the members of the alias object, after its "{" (acc: the members so far)
RECURSIVE parseAliasMembers(_, _)
parseAliasMembers(ts, acc) ==
  IF Len(ts) < 4 \/ ~parseString(ts[1]).ok \/ ts[2] # <<":">> \/ ~parseString(ts[3]).ok
  THEN ParseError
  ELSE LET key == parseString(ts[1]).val
           got == [u \in DOMAIN acc \cup {key} |->
                     IF u = key THEN parseString(ts[3]).val ELSE acc[u]]
       IN  IF SubSeq(ts, 4, Len(ts)) = << <<"}">> >>
           THEN [ok |-> TRUE, val |-> got, rest |-> << >>]
           ELSE IF ts[4] = <<",">> THEN parseAliasMembers(SubSeq(ts, 5, Len(ts)), got)
           ELSE ParseError

\* JSON.parse of the alias document
parseAliases(text) ==
  IF text = << <<"{">>, <<"}">> >> THEN [ok |-> TRUE, val |-> << >>, rest |-> << >>]
  ELSE IF text # << >> /\ Head(text) = <<"{">> THEN parseAliasMembers(Tail(text), << >>)
  ELSE ParseError

\* new Map(Object.entries(readJsonSafe(ALIAS_FILE, fallback)))
readAliasesSafe(files, fallback) ==
  IF ALIAS_FILE \in DOMAIN files
  THEN IF parseAliases(files[ALIAS_FILE]).ok THEN parseAliases(files[ALIAS_FILE]).val
       ELSE fallback
  ELSE fallback

----------------------------------------------------------------------------
(* Conversation memory *)

DefaultMaxMemory == 14

getMemory(mm, channelId) == IF channelId \in DOMAIN mm THEN mm[channelId] ELSE << >>

\* appendToMemory keeping the oldest turns: slice(0, max) for slice(-max)
appendToMemory_KeepOldest(mm, channelId, speaker, text, max) ==
  LET pushed == Append(getMemory(mm, channelId), [speaker |-> speaker, text |-> text])
      kept == IF Len(pushed) > max THEN SubSeq(pushed, 1, max) ELSE pushed
  IN  [c \in DOMAIN mm \cup {channelId} |-> IF c = channelId THEN kept ELSE mm[c]]

\* appendToMemory trimming one turn too many: >= for >, and max - 1 kept
appendToMemory_TrimAtCap(mm, channelId, speaker, text, max) ==
  LET pushed == Append(getMemory(mm, channelId), [speaker |-> speaker, text |-> text])
      kept == IF Len(pushed) >= max THEN slice(pushed, -(max - 1)) ELSE pushed
  IN  [c \in DOMAIN mm \cup {channelId} |-> IF c = channelId THEN kept ELSE mm[c]]

\* the memoryMap after appendToMemory(channelId, speaker, text)
appendToMemory(mm, channelId, speaker, text, max) ==
  LET pushed == Append(getMemory(mm, channelId), [speaker |-> speaker, text |-> text])
      kept == IF Len(pushed) > max THEN slice(pushed, -max) ELSE pushed
  IN  [c \in DOMAIN mm \cup {channelId} |-> IF c = channelId THEN kept ELSE mm[c]]

----------------------------------------------------------------------------
(* Values shared by the specifications *)

User1 == << "1" >>
Operator == << "2" >>
Channel1 == << "7" >>
Channel2 == << "8" >>
Channels == {Channel1, Channel2}

Msg(a, c, ch, g, b) == [author |-> a, content |-> c, channel |-> ch, guild |-> g, bot |-> b]
NoMessage == Msg(NULL, NULL, NULL, FALSE, FALSE)

\* a value of Date.now(), in seconds
StartTime == 1000

\* the state after the module has been loaded with an empty data directory
InitState(creator, max, degrade, chime) ==
  /\ CREATOR_ID = creator
  /\ MAX_MEMORY_ENTRIES = max
  /\ RANDOM_DEGRADE_CHANCE = degrade
  /\ RANDOM_CHIME_CHANCE = chime
  /\ memoryMap = << >>
  /\ fs = << >>
  /\ aliasMap = << >>
  /\ manualLog = NULL
  /\ lastResponseByChannel = << >>
  /\ maggots = {}
  /\ now = StartTime
  /\ nickname = [u \in {User1, Operator} |-> NULL]
  /\ memberUpdates = << >>
  /\ tasks = EmptyBag
  /\ sent = << >>
  /\ appended = [c \in Channels |-> << >>]

----------------------------------------------------------------------------
(* The flag set *)

MAGGOT_TRIGGERS ==
  << <<"s","h","u","t"," ","u","p">>,
     <<"s","t","f","u">>,
     <<"f","u","c","k"," ","y","o","u">>,
     <<"u","s","e","l","e","s","s">>,
     <<"w","o","r","t","h","l","e","s","s">>,
     <<"d","u","m","b"," ","b","o","t">>,
     <<"s","t","u","p","i","d"," ","b","o","t">> >>

DEGRADE_NAMES ==
  << <<"m","a","g","g","o","t">>,
     <<"w","o","r","m">>,
     <<"g","r","u","n","t">>,
     <<"b","o","o","t">>,
     <<"p","e","a","s","a","n","t">>,
     <<"s","l","u","g">>,
     <<"p","r","i","v","a","t","e">> >>

maggot == <<"m","a","g","g","o","t">>

DefaultDegradeChance == 5

\* Map.prototype.has / get / set / delete on the maggots map, kept as its set of entries
mapHas(m, k) == \E e \in m : e.id = k
mapGet(m, k) == CHOOSE e \in m : e.id = k
\* Map.set that leaves an older entry of the key in place
mapSet_KeepOld(m, k, name, at) == m \cup {[id |-> k, name |-> name, at |-> at]}
mapSet(m, k, name, at) == {e \in m : e.id # k} \cup {[id |-> k, name |-> name, at |-> at]}
mapDelete(m, k) == {e \in m : e.id # k}

\* unmarkMaggot(member)
unmarkMaggot(m, id) == mapDelete(m, id)

\* MAGGOT_TRIGGERS.some((t) => lower.includes(t))
explicitTrigger(raw) ==
  LET lower == toLowerCase(raw)
  IN  \E i \in 1..Len(MAGGOT_TRIGGERS) : includes(lower, MAGGOT_TRIGGERS[i])

\* shouldDegrade with the length test at the threshold: >= 10 for > 10
shouldDegrade_AtThreshold(raw, already, draw, chance) ==
  LET explicit == explicitTrigger(raw)
  IN  \/ ~already /\ explicit
      \/ /\ ~already
         /\ ~explicit
         /\ draw < chance
         /\ Len(raw) >= 10
         /\ ~startsWith(raw, <<"!">>)

\* the shouldDegrade decision of the message handler, for the draw of Math.random()
shouldDegrade(raw, already, draw, chance) ==
  LET explicit == explicitTrigger(raw)
  IN  \/ ~already /\ explicit
      \/ /\ ~already
         /\ ~explicit
         /\ draw < chance
         /\ Len(raw) > 10
         /\ ~startsWith(raw, <<"!">>)

\* DEGRADE_NAMES[Math.floor(Math.random() * DEGRADE_NAMES.length)] || "maggot"
pickNick(draw) ==
  LET i == (draw * Len(DEGRADE_NAMES)) \div 100
  IN  IF i + 1 \in 1..Len(DEGRADE_NAMES) /\ DEGRADE_NAMES[i + 1] # NULL
      THEN DEGRADE_NAMES[i + 1] ELSE maggot

\* the test of the message handler for re-applying the nickname
needsReapply(currentNick) == currentNick # NULL /\ toLowerCase(currentNick) # maggot

\* the nickname the message handler re-applies
reapplyNick(entry) == maggot

\* the GuildMemberUpdate handler's test and the nickname it sets
gmuDesired(entry) == IF entry.name # NULL THEN toLowerCase(entry.name) ELSE maggot
gmuNeedsRename(entry, newNick) ==
  LET current == IF newNick # NULL THEN toLowerCase(newNick) ELSE NULL
  IN  current # NULL /\ current # gmuDesired(entry)
gmuNick(entry) == IF entry.name # NULL THEN entry.name ELSE maggot

\* isCreator without the comparison with the author
isCreator_AnyAuthor(creator, author) == creator # NULL

\* isCreator(): CREATOR_ID && message.author.id === CREATOR_ID
isCreator(creator, author) == creator # NULL /\ author = creator

----------------------------------------------------------------------------
(* The response gate and the reply *)

KEYWORDS ==
  << <<"p","i","c","k","l","e","t","o","o","t","h">>, <<"p","i","c","k","l","e">>,
     <<"m","a","j">>, <<"m","a","j","o","r">>, <<"s","i","r">>,
     <<"t","a","s","k"," ","f","o","r","c","e"," ","r","e","a","p","e","r">>,
     <<"s","h","a","d","o","w"," ","c","o","m","p","a","n","y">>,
     <<"c","u","b","e"," ","c","u","l","t">>, <<"c","i","v","i","l"," ","w","a","r">>,
     <<"t","f","r">>, <<"s","c">>, <<"c","u","b","e">> >>

DefaultChimeChance == 15
MinChimeLength == 15
CooldownSeconds == 10

\* shouldRespond testing the keywords and the question mark before the author
shouldRespond_BotAfterKeywords(message, draw, chance, lastMap, t) ==
  LET content == toLowerCase(message.content)
      last == IF message.channel \in DOMAIN lastMap THEN lastMap[message.channel] ELSE 0
  IN  IF \E i \in 1..Len(KEYWORDS) : includes(content, KEYWORDS[i]) THEN TRUE
      ELSE IF includes(content, <<"?">>) THEN TRUE
      ELSE IF message.bot THEN FALSE
      ELSE /\ Len(content) >= MinChimeLength
           /\ draw < chance
           /\ t - last > CooldownSeconds

\* shouldRespond(message), for the draw of Math.random() and the value of Date.now()
shouldRespond(message, draw, chance, lastMap, t) ==
  LET content == toLowerCase(message.content)
      last == IF message.channel \in DOMAIN lastMap THEN lastMap[message.channel] ELSE 0
  IN  IF message.bot THEN FALSE
      ELSE IF \E i \in 1..Len(KEYWORDS) : includes(content, KEYWORDS[i]) THEN TRUE
      ELSE IF includes(content, <<"?">>) THEN TRUE
      ELSE /\ Len(content) >= MinChimeLength
           /\ draw < chance
           /\ t - last > CooldownSeconds

username(id) == <<"u","s","e","r">> \o id

\* aliasMap.get(userId) || message.member?.displayName || message.author.username
callsignOf(aliases, nicks, message) ==
  IF message.author \in DOMAIN aliases /\ aliases[message.author] # NULL
  THEN aliases[message.author]
  ELSE IF message.guild /\ nicks[message.author] # NULL THEN nicks[message.author]
  ELSE username(message.author)

BotSpeaker == <<"M","a","j","."," ","P","i","c","k","l","e","t","o","o","t","h">>
NoResponseText ==
  <<"I"," ","c","o","u","l","d","n","'","t"," ","f","o","r","m","u","l","a","t","e"," ",
    "a"," ","r","e","s","p","o","n","s","e",".">>
FailedText ==
  <<"G","e","m","i","n","i"," ","r","e","q","u","e","s","t"," ","f","a","i","l","e","d","."," ",
    "C","h","e","c","k"," ","c","o","n","f","i","g","u","r","a","t","i","o","n",".">>

\* respondWithIntel without the fallback for an empty text
intelReply_NoFallback(outcome) ==
  IF outcome.threw THEN FailedText ELSE trim(outcome.text)

\* what respondWithIntel returns for an outcome of model.generateContent:
\* [threw |-> TRUE], or [threw |-> FALSE, text |-> the text of the response]
intelReply(outcome) ==
  IF outcome.threw THEN FailedText
  ELSE IF trim(outcome.text) # NULL THEN trim(outcome.text) ELSE NoResponseText

\* the prompt respondWithIntel sends: the channel's memory lines, then the prompt text
fullPrompt(mm, channelId, max, promptText) ==
  LET mem == getMemory(mm, channelId)
      entries == slice(mem, -max)
      lines == flatten([i \in 1..Len(entries) |->
                 (IF i > 1 THEN << "\n" >> ELSE << >>)
                 \o entries[i].speaker \o <<":", " ">> \o entries[i].text])
      prefix == IF Len(mem) > 0 /\ Len(entries) > 0
                THEN <<"P","r","e","v","i","o","u","s"," ","c","o","n","v","e","r","s","a","t","i","o","n",":","\n">>
                     \o lines \o << "\n", "\n" >>
                ELSE << >>
  IN  prefix \o promptText

----------------------------------------------------------------------------
(* Handlers.  A handler runs without interruption up to its next await; a    *)
(* handler suspended at an await is a task, resumed by a later step.         *)

MaxHandlers == 2
MaxPendingUpdates == 1

\* the values Math.random() is drawn from, in hundredths
RandomDraws == {0, 20}

\* the outcomes of model.generateContent
GenerateOutcomes ==
  { [threw |-> TRUE, text |-> NULL],
    [threw |-> FALSE, text |-> NULL],
    [threw |-> FALSE, text |-> <<" ">>],
    [threw |-> FALSE, text |-> <<"A","y","e",".">>] }

\* Array.prototype.join
join(ss, sep) ==
  flatten([i \in 1..Len(ss) |-> (IF i > 1 THEN sep ELSE << >>) \o ss[i]])

\* aliasMap.set(userId, callsign) and aliasMap.delete(userId)
aliasSet(am, userId, callsign) ==
  [k \in DOMAIN am \cup {userId} |-> IF k = userId THEN callsign ELSE am[k]]
aliasDelete(am, userId) == [k \in DOMAIN am \ {userId} |-> am[k]]

\* collectDocText(message) and collectImageParts(message).length > 0: the
\* messages of the pools carry no attachments
collectDocText(message) == NULL
hasImageParts(message) == FALSE

\* rest.length < n taken as "no argument at all"
missingArgs_NoneAtAll(rest, n) == rest = << >>
\* rest.length < n
missingArgs(rest, n) == Len(rest) < n

Out(op, to, text, arg) == [op |-> op, to |-> to, text |-> text, arg |-> arg]
reply(message, text, arg) == Out("reply", message.author, text, arg)
setNickname(id, nick) == Out("setNickname", id, "", nick)

\* a handler suspended at an await: where, for which message, and since when
Task(pc, message, nick, userId) ==
  [pc |-> pc, message |-> message, nick |-> nick, userId |-> userId, applied |-> FALSE,
   at |-> now]

addTask(b, t) == b (+) SetToBag({t})
dropTask(b, t) == b (-) SetToBag({t})

RenamePcs == {"markMaggot", "enforce", "amnestyReset", "gmuRename", "nickRename"}

\* the nickname the guild holds for a user: the cached one, unless a newer one
\* is on its way to the client
serverNick(id) ==
  LET mine == {i \in 1..Len(memberUpdates) : memberUpdates[i].id = id}
  IN  IF mine = {} THEN nickname[id]
      ELSE memberUpdates[CHOOSE i \in mine : \A j \in mine : i >= j].nickname

amnestyWords == { <<"a","m","n","e","s","t","y">>, <<"f","o","r","g","i","v","e">> }
aliasWords == { <<"a","l","i","a","s">>, <<"s","e","t","a","l","i","a","s">> }

\* the message handler from "if (!shouldRespond(message)) return" on
GateOnwards(message, outs, base, draw) ==
  IF ~shouldRespond(message, draw, RANDOM_CHIME_CHANCE, lastResponseByChannel, now)
  THEN /\ tasks' = base
       /\ sent' = outs
       /\ UNCHANGED << memoryMap, fs, appended >>
  ELSE LET raw == trim(message.content)
           callsign == callsignOf(aliasMap, nickname, message)
           mm == appendToMemory(memoryMap, message.channel, callsign, raw, MAX_MEMORY_ENTRIES)
           prompt == <<"F","r","o","m"," ">> \o callsign \o <<":"," ">> \o raw
       IN  /\ memoryMap' = mm
           /\ fs' = saveMemory(fs, mm)
           /\ appended' = [appended EXCEPT ![message.channel] =
                             Append(@, [speaker |-> callsign, text |-> raw])]
           /\ tasks' = addTask(base, Task("generate", message, NULL, NULL))
           /\ sent' = Append(outs, Out("generateContent", message.author, "",
                               fullPrompt(mm, message.channel, MAX_MEMORY_ENTRIES, prompt)))

\* the message handler from "Ensure flagged maggots keep their nickname" on
EnforceOnwards(message, outs, base, draw) ==
  IF /\ message.guild
     /\ mapHas(maggots, message.author)
     /\ needsReapply(nickname[message.author])
  THEN /\ tasks' = addTask(base, Task("enforce", message,
                                      reapplyNick(mapGet(maggots, message.author)),
                                      message.author))
       /\ sent' = Append(outs, setNickname(message.author,
                                           reapplyNick(mapGet(maggots, message.author))))
       /\ UNCHANGED << memoryMap, fs, appended >>
  ELSE GateOnwards(message, outs, base, draw)

\* handleCommand(message, body), up to its first await on the guild
HandleCommand(message, body) ==
  LET parts == splitWs(trim(body))
      cmd == parts[1]
      rest == Tail(parts)
      lower == toLowerCase(cmd)
      userId == matchMention(rest[1])
      creator == isCreator(CREATOR_ID, message.author)
      done(text, arg) == /\ sent' = << reply(message, text, arg) >>
                         /\ UNCHANGED << tasks, maggots, aliasMap, manualLog, fs >>
  IN  /\ UNCHANGED << memoryMap, appended >>
      /\ IF lower = <<"l","o","a","d","l","o","g">>
         THEN IF ~creator
              THEN done("Only the creator can load a manual log.", NULL)
              ELSE LET text == trim(join(rest, <<" ">>))
                       newLog == IF text # NULL THEN text ELSE collectDocText(message)
                   IN  IF newLog = NULL
                       THEN done("No log text provided. Attach a .txt/.md/.pdf or include text after !loadlog.", NULL)
                       ELSE /\ fs' = writeManualLog(fs, newLog)
                            /\ manualLog' = newLog
                            /\ sent' = << reply(message, "Manual log updated.", NULL) >>
                            /\ UNCHANGED << tasks, maggots, aliasMap >>
         ELSE IF lower \in aliasWords
         THEN IF ~creator
              THEN done("Only the creator can set aliases.", NULL)
              ELSE IF missingArgs(rest, 2)
              THEN done("Usage: !alias @user callsign", NULL)
              ELSE IF userId = NULL
              THEN done("Please mention a user to set an alias.", NULL)
              ELSE LET callsign == join(Tail(rest), <<" ">>)
                       am == aliasSet(aliasMap, userId, callsign)
                   IN  /\ aliasMap' = am
                       /\ fs' = saveAliases(fs, am)
                       /\ sent' = << reply(message, "Alias set for ${mention}: **${callsign}**",
                                           rest[1] \o <<":", " ">> \o callsign) >>
                       /\ UNCHANGED << tasks, maggots, manualLog >>
         ELSE IF lower = <<"u","n","a","l","i","a","s">>
         THEN IF ~creator
              THEN done("Only the creator can remove aliases.", NULL)
              ELSE IF missingArgs(rest, 1)
              THEN done("Usage: !unalias @user", NULL)
              ELSE IF userId = NULL
              THEN done("Please mention a user to remove an alias.", NULL)
              ELSE LET am == aliasDelete(aliasMap, userId)
                   IN  /\ aliasMap' = am
                       /\ fs' = saveAliases(fs, am)
                       /\ sent' = << reply(message, "Alias removed for ${mention}.", rest[1]) >>
                       /\ UNCHANGED << tasks, maggots, manualLog >>
         ELSE IF lower = <<"n","i","c","k">>
         THEN IF ~creator
              THEN done("Only the creator can change nicknames.", NULL)
              ELSE IF missingArgs(rest, 2)
              THEN done("Usage: !nick @user newNickname", NULL)
              ELSE IF userId = NULL
              THEN done("Please mention a user to change their nickname.", NULL)
              ELSE IF ~message.guild
              THEN done("This command must be run in a guild.", NULL)
              ELSE /\ tasks' = addTask(tasks, Task("nickFetch", message,
                                                   join(Tail(rest), <<" ">>), userId))
                   /\ sent' = << Out("fetch", userId, "", NULL) >>
                   /\ UNCHANGED << maggots, aliasMap, manualLog, fs >>
         ELSE IF lower = <<"c","r","e","a","t","e","c","h","a","n","n","e","l">>
         THEN IF ~creator
              THEN done("Only the creator can create channels.", NULL)
              ELSE IF missingArgs(rest, 1)
              THEN done("Usage: !createchannel channel-name", NULL)
              ELSE IF ~message.guild
              THEN done("This command must be run in a guild.", NULL)
              ELSE /\ tasks' = addTask(tasks, Task("createChannel", message, NULL, NULL))
                   /\ sent' = << Out("channels.create", message.author, "",
                                     toLowerCase(join(rest, <<"-">>))) >>
                   /\ UNCHANGED << maggots, aliasMap, manualLog, fs >>
         ELSE IF lower = <<"p","a","r","s","e">>
         THEN IF collectDocText(message) = NULL /\ ~hasImageParts(message)
              THEN done("No supported attachments found to parse.", NULL)
              ELSE done("${response}", collectDocText(message))
         ELSE IF lower \in amnestyWords
         THEN IF ~creator
              THEN done("Only the creator can forgive a maggot.", NULL)
              ELSE IF missingArgs(rest, 1)
              THEN done("Usage: !amnesty @user", NULL)
              ELSE IF userId = NULL
              THEN done("Please mention a user to grant amnesty.", NULL)
              ELSE IF ~mapHas(maggots, userId)
              THEN done("That user is not currently marked as a maggot.", NULL)
              ELSE IF message.guild
              THEN /\ tasks' = addTask(tasks, Task("amnestyFetch", message, NULL, userId))
                   /\ sent' = << Out("fetch", userId, "", NULL) >>
                   /\ UNCHANGED << maggots, aliasMap, manualLog, fs >>
              ELSE /\ maggots' = unmarkMaggot(maggots, userId)
                   /\ sent' = << reply(message, "Amnesty granted to ${mention}. They are no longer a maggot.", rest[1]) >>
                   /\ UNCHANGED << tasks, aliasMap, manualLog, fs >>
         ELSE done("Unknown command: ${cmd}", cmd)

\* Events.MessageCreate, up to the first await
MessageCreate(m) ==
  /\ BagCardinality(tasks) < MaxHandlers
  /\ UNCHANGED << config, lastResponseByChannel, now, nickname, memberUpdates >>
  /\ LET raw == trim(m.content)
     IN  IF m.bot
         THEN /\ sent' = << >>
              /\ UNCHANGED << memoryMap, fs, appended, tasks, maggots, aliasMap, manualLog >>
         ELSE IF startsWith(raw, <<"!">>)
         THEN HandleCommand(m, slice(raw, 1))
         ELSE \E degradeDraw \in RandomDraws :
                /\ UNCHANGED << maggots, aliasMap, manualLog >>
                /\ IF /\ m.guild
                      /\ shouldDegrade(raw, mapHas(maggots, m.author), degradeDraw,
                                       RANDOM_DEGRADE_CHANCE)
                   THEN \E nickDraw \in RandomDraws :
                          /\ IF mapHas(maggots, m.author)
                             THEN \* markMaggot returns at once
                                  /\ tasks' = addTask(tasks, Task("ackReply", m, NULL, m.author))
                                  /\ sent' = << reply(m, "Watch your tone, ${nick}. Nickname updated.",
                                                      pickNick(nickDraw)) >>
                             ELSE /\ tasks' = addTask(tasks, Task("markMaggot", m,
                                                                  pickNick(nickDraw), m.author))
                                  /\ sent' = << setNickname(m.author, pickNick(nickDraw)) >>
                          /\ UNCHANGED << memoryMap, fs, appended >>
                   ELSE \E chimeDraw \in RandomDraws :
                          EnforceOnwards(m, << >>, tasks, chimeDraw)

\* the guild carries out a pending setNickname request
GuildApplies(t) ==
  /\ t.pc \in RenamePcs
  /\ ~t.applied
  /\ IF serverNick(t.userId) = t.nick
     THEN UNCHANGED memberUpdates
     ELSE /\ Len(memberUpdates) < MaxPendingUpdates
          /\ memberUpdates' = Append(memberUpdates, [id |-> t.userId, nickname |-> t.nick])
  /\ tasks' = addTask(dropTask(tasks, t), [t EXCEPT !.applied = TRUE])
  /\ sent' = << >>
  /\ UNCHANGED << config, manualLog, memoryMap, fs, appended, aliasMap, lastResponseByChannel,
                  maggots, now, nickname >>

\* markMaggot after its await: the rename was carried out, or was rejected;
\* then the handler's reply
MarkMaggotSettled(t) ==
  /\ t.pc = "markMaggot"
  /\ maggots' = IF t.applied THEN mapSet(maggots, t.userId, t.nick, now) ELSE maggots
  /\ sent' = << reply(t.message, "Watch your tone, ${nick}. Nickname updated.", t.nick) >>
  /\ tasks' = addTask(dropTask(tasks, t), Task("ackReply", t.message, NULL, t.userId))
  /\ UNCHANGED << config, manualLog, memoryMap, fs, appended, aliasMap, lastResponseByChannel,
                  now, nickname, memberUpdates >>

\* the reply after markMaggot was sent (the handler returns), or failed (the
\* handler's catch logs it and the handler goes on)
AckReplySettled(t) ==
  /\ t.pc = "ackReply"
  /\ \E ok \in BOOLEAN :
       /\ IF ok
          THEN /\ tasks' = dropTask(tasks, t)
               /\ sent' = << >>
               /\ UNCHANGED << memoryMap, fs, appended >>
          ELSE \E chimeDraw \in RandomDraws :
                 EnforceOnwards(t.message, << >>, dropTask(tasks, t), chimeDraw)
  /\ UNCHANGED << config, manualLog, aliasMap, lastResponseByChannel, maggots, now, nickname,
                  memberUpdates >>

\* the re-applying setNickname of the message handler was carried out or rejected
EnforceSettled(t) ==
  /\ t.pc = "enforce"
  /\ \E chimeDraw \in RandomDraws :
       GateOnwards(t.message, << >>, dropTask(tasks, t), chimeDraw)
  /\ UNCHANGED << config, manualLog, aliasMap, lastResponseByChannel, maggots, now, nickname,
                  memberUpdates >>

\* the amnesty command with unmarkMaggot inside the try block: a rejected fetch
\* skips it
AmnestyFetchSettled_KeepOnFailure(t) ==
  /\ t.pc = "amnestyFetch"
  /\ \E ok \in BOOLEAN :
       IF ok
       THEN /\ tasks' = addTask(dropTask(tasks, t),
                                Task("amnestyReset", t.message, NULL, t.userId))
            /\ sent' = << setNickname(t.userId, NULL) >>
            /\ UNCHANGED maggots
       ELSE /\ UNCHANGED maggots
            /\ tasks' = dropTask(tasks, t)
            /\ sent' = << reply(t.message, "Amnesty granted to ${mention}. They are no longer a maggot.",
                                splitWs(trim(slice(trim(t.message.content), 1)))[2]) >>
  /\ UNCHANGED << config, manualLog, memoryMap, fs, appended, aliasMap, lastResponseByChannel,
                  now, nickname, memberUpdates >>

\* guild.members.fetch(userId) of the amnesty command resolved or rejected
AmnestyFetchSettled(t) ==
  /\ t.pc = "amnestyFetch"
  /\ \E ok \in BOOLEAN :
       /\ IF ok
          THEN /\ tasks' = addTask(dropTask(tasks, t),
                                   Task("amnestyReset", t.message, NULL, t.userId))
               /\ sent' = << setNickname(t.userId, NULL) >>
               /\ UNCHANGED maggots
          ELSE /\ maggots' = unmarkMaggot(maggots, t.userId)
               /\ tasks' = dropTask(tasks, t)
               /\ sent' = << reply(t.message, "Amnesty granted to ${mention}. They are no longer a maggot.",
                                   splitWs(trim(slice(trim(t.message.content), 1)))[2]) >>
  /\ UNCHANGED << config, manualLog, memoryMap, fs, appended, aliasMap, lastResponseByChannel,
                  now, nickname, memberUpdates >>

\* member.setNickname(null) of the amnesty command was carried out or rejected
AmnestyResetSettled(t) ==
  /\ t.pc = "amnestyReset"
  /\ maggots' = unmarkMaggot(maggots, t.userId)
  /\ tasks' = dropTask(tasks, t)
  /\ sent' = << reply(t.message, "Amnesty granted to ${mention}. They are no longer a maggot.",
                      splitWs(trim(slice(trim(t.message.content), 1)))[2]) >>
  /\ UNCHANGED << config, manualLog, memoryMap, fs, appended, aliasMap, lastResponseByChannel,
                  now, nickname, memberUpdates >>

\* guild.members.fetch(userId) of the nick command resolved or rejected
NickFetchSettled(t) ==
  /\ t.pc = "nickFetch"
  /\ \E ok \in BOOLEAN :
       IF ok
       THEN /\ tasks' = addTask(dropTask(tasks, t),
                                Task("nickRename", t.message, t.nick, t.userId))
            /\ sent' = << setNickname(t.userId, t.nick) >>
       ELSE /\ tasks' = dropTask(tasks, t)
            /\ sent' = << reply(t.message, "Could not change nickname: ${e.message}", NULL) >>
  /\ UNCHANGED << config, manualLog, memoryMap, fs, appended, aliasMap, lastResponseByChannel,
                  maggots, now, nickname, memberUpdates >>

\* member.setNickname(newNick) of the nick command was carried out or rejected
NickRenameSettled(t) ==
  /\ t.pc = "nickRename"
  /\ tasks' = dropTask(tasks, t)
  /\ sent' = IF t.applied
             THEN << reply(t.message, "Nickname for ${mention} updated to **${newNick}**.", t.nick) >>
             ELSE << reply(t.message, "Could not change nickname: ${e.message}", NULL) >>
  /\ UNCHANGED << config, manualLog, memoryMap, fs, appended, aliasMap, lastResponseByChannel,
                  maggots, now, nickname, memberUpdates >>

\* guild.channels.create(...) of the createchannel command resolved or rejected
CreateChannelSettled(t) ==
  /\ t.pc = "createChannel"
  /\ tasks' = dropTask(tasks, t)
  /\ \E ok \in BOOLEAN :
       sent' = IF ok
               THEN << reply(t.message, "Channel <#${channel.id}> created.", NULL) >>
               ELSE << reply(t.message, "Could not create channel: ${e.message}", NULL) >>
  /\ UNCHANGED << config, manualLog, memoryMap, fs, appended, aliasMap, lastResponseByChannel,
                  maggots, now, nickname, memberUpdates >>

\* Events.GuildMemberUpdate, up to its await: the client receives the update,
\* which refreshes the cached member
GuildMemberUpdate ==
  /\ memberUpdates # << >>
  /\ LET newMember == Head(memberUpdates)
     IN  /\ memberUpdates' = Tail(memberUpdates)
         /\ nickname' = [nickname EXCEPT ![newMember.id] = newMember.nickname]
         /\ IF /\ mapHas(maggots, newMember.id)
               /\ gmuNeedsRename(mapGet(maggots, newMember.id), newMember.nickname)
            THEN /\ BagCardinality(tasks) < MaxHandlers
                 /\ tasks' = addTask(tasks, Task("gmuRename", NoMessage,
                                                 gmuNick(mapGet(maggots, newMember.id)),
                                                 newMember.id))
                 /\ sent' = << setNickname(newMember.id, gmuNick(mapGet(maggots, newMember.id))) >>
            ELSE /\ sent' = << >>
                 /\ UNCHANGED tasks
  /\ UNCHANGED << config, manualLog, memoryMap, fs, appended, aliasMap, lastResponseByChannel,
                  maggots, now >>

\* the setNickname of the GuildMemberUpdate handler was carried out or rejected
GmuRenameSettled(t) ==
  /\ t.pc = "gmuRename"
  /\ tasks' = dropTask(tasks, t)
  /\ sent' = << >>
  /\ UNCHANGED << config, manualLog, memoryMap, fs, appended, aliasMap, lastResponseByChannel,
                  maggots, now, nickname, memberUpdates >>

\* model.generateContent of respondWithIntel resolved or threw; then the rest
\* of the message handler
GenerateSettled(t) ==
  /\ t.pc = "generate"
  /\ \E outcome \in GenerateOutcomes :
       LET text == intelReply(outcome)
           mm == appendToMemory(memoryMap, t.message.channel, BotSpeaker, text,
                                MAX_MEMORY_ENTRIES)
       IN  IF text # NULL
           THEN /\ memoryMap' = mm
                /\ fs' = saveMemory(fs, mm)
                /\ appended' = [appended EXCEPT ![t.message.channel] =
                                  Append(@, [speaker |-> BotSpeaker, text |-> text])]
                /\ lastResponseByChannel' =
                     [c \in DOMAIN lastResponseByChannel \cup {t.message.channel} |->
                        IF c = t.message.channel THEN now ELSE lastResponseByChannel[c]]
                /\ sent' = << reply(t.message, "${reply}", text) >>
           ELSE /\ sent' = << >>
                /\ UNCHANGED << memoryMap, fs, appended, lastResponseByChannel >>
  /\ tasks' = dropTask(tasks, t)
  /\ UNCHANGED << config, manualLog, aliasMap, maggots, now, nickname, memberUpdates >>

\* a member changes or clears their own nickname
UserRenames(id, nick) ==
  /\ serverNick(id) # nick
  /\ Len(memberUpdates) < MaxPendingUpdates
  /\ memberUpdates' = Append(memberUpdates, [id |-> id, nickname |-> nick])
  /\ sent' = << >>
  /\ UNCHANGED << config, manualLog, memoryMap, fs, appended, aliasMap, lastResponseByChannel,
                  maggots, now, nickname, tasks >>

----------------------------------------------------------------------------
(* The flag set under messages, renames and amnesty commands *)

Text_Worthless == <<"y","o","u"," ","a","r","e"," ","s","o"," ","w","o","r","t","h","l","e","s","s">>
Text_STFU == <<"S","T","F","U">>
Text_PleaseStfu == <<"p","l","e","a","s","e"," ","s","t","f","u"," ","n","o","w">>
Text_Morning == <<"g","o","o","d"," ","m","o","r","n","i","n","g"," ","e","v","e","r","y","o","n","e">>
Text_Hi == <<"h","i">>
Cmd_Amnesty1 == <<"!","a","m","n","e","s","t","y"," ","<","@","1",">">>
Cmd_Forgive2 == <<"!","F","o","r","g","i","v","e"," ","<","@","!","2",">">>
Cmd_AmnestyNoArg == <<"!","a","m","n","e","s","t","y">>
Cmd_AmnestyBob == <<"!","a","m","n","e","s","t","y"," ","b","o","b">>
Cmd_Dance == <<"!","d","a","n","c","e">>

ModMessages ==
  {Msg(User1, c, Channel1, TRUE, FALSE) : c \in {Text_Worthless, Text_Morning, Cmd_Amnesty1}}
  \cup {Msg(Operator, c, Channel1, TRUE, FALSE) :
          c \in {Cmd_Amnesty1, Cmd_Forgive2, Cmd_AmnestyNoArg, Cmd_AmnestyBob}}
  \cup {Msg(User1, Text_STFU, Channel1, FALSE, FALSE),
        Msg(Operator, Cmd_Amnesty1, Channel1, FALSE, FALSE)}

SelfNicks == {NULL, <<"W","O","R","M">>}

Init ==
  \E creator \in {NULL, Operator} :
    InitState(creator, DefaultMaxMemory, DefaultDegradeChance, 0)

Next ==
  \/ \E m \in ModMessages : MessageCreate(m)
  \/ \E t \in BagToSet(tasks) : GuildApplies(t)
  \/ \E t \in BagToSet(tasks) : MarkMaggotSettled(t)
  \/ \E t \in BagToSet(tasks) : AckReplySettled(t)
  \/ \E t \in BagToSet(tasks) : EnforceSettled(t)
  \/ \E t \in BagToSet(tasks) : AmnestyFetchSettled(t)
  \/ \E t \in BagToSet(tasks) : AmnestyResetSettled(t)
  \/ GuildMemberUpdate
  \/ \E t \in BagToSet(tasks) : GmuRenameSettled(t)
  \/ \E nick \in SelfNicks : UserRenames(User1, nick)

Spec == Init /\ [][Next]_vars

Users == {User1, Operator}
Labels == {DEGRADE_NAMES[i] : i \in 1..Len(DEGRADE_NAMES)}
flagged(id) == \E e \in maggots : e.id = id
AckText == "Watch your tone, ${nick}. Nickname updated."
GrantedText == "Amnesty granted to ${mention}. They are no longer a maggot."
NotMarkedText == "That user is not currently marked as a maggot."
isChat(m) == ~m.bot /\ m.content \in {Text_Worthless, Text_Morning, Text_STFU}
\* the user an amnesty command of the pool names
amnestyTarget(m) ==
  IF m.content = Cmd_Amnesty1 THEN User1
  ELSE IF m.content = Cmd_Forgive2 THEN Operator
  ELSE NULL
renamesIn(outs) == {i \in 1..Len(outs) : outs[i].op = "setNickname"}

\* C3: the flag set holds at most one entry per user, and every entry carries
\* one label of the catalogue DEGRADE_NAMES.
C3_OneLabelPerUser ==
  /\ \A e1 \in maggots : \A e2 \in maggots : e1.id = e2.id => e1 = e2
  /\ \A e \in maggots : e.name \in Labels

\* a user already flagged, with a second assignment of another label, begun
\* while the user was unflagged, about to be recorded
C3_Witness ==
  \E e \in maggots : \E t \in BagToSet(tasks) :
    t.pc = "markMaggot" /\ t.applied /\ t.userId = e.id /\ t.nick # e.name

C5_FlagRecordedEvenIfRenameFails ==
  [][ \A t \in BagToSet(tasks) :
        (t.pc = "markMaggot" /\ MarkMaggotSettled(t)) =>
          \E e \in maggots' : e.id = t.userId /\ e.name = t.nick
    ]_vars

\* C6: a non-command guild message of a flagged user, whose cached nickname is
\* the one the guild holds, requests a rename to the recorded label when the
\* nickname differs from it, and no rename otherwise.
C6_MessageReappliesRecordedLabel ==
  [][ \A m \in ModMessages :
        ( /\ isChat(m)
          /\ m.guild
          /\ flagged(m.author)
          /\ serverNick(m.author) = nickname[m.author]
          /\ MessageCreate(m) ) =>
          \A e \in maggots :
            e.id = m.author =>
              IF nickname[m.author] # e.name
              THEN sent' = << setNickname(m.author, e.name) >>
              ELSE renamesIn(sent') = {}
    ]_vars

\* C7: a rename notification for a flagged user whose new name differs from
\* the recorded label (another name, or none) requests a rename to the label;
\* for an unflagged user or an equal name it requests nothing.
C7_UpdateReappliesRecordedLabel ==
  [][ GuildMemberUpdate =>
        LET newMember == Head(memberUpdates)
        IN  IF \E e \in maggots : e.id = newMember.id /\ e.name # newMember.nickname
            THEN \E e \in maggots :
                   e.id = newMember.id /\ sent' = << setNickname(newMember.id, e.name) >>
            ELSE sent' = << >>
    ]_vars

\* C8: a command of anyone but the configured operator leaves the flag set as
\* it is and begins no amnesty; an amnesty of the operator removes the flag
\* also when the member fetch is rejected or the nickname reset is rejected.
C8_AmnestyOnlyByOperator ==
  [][ /\ \/ /\ maggots' = maggots
            /\ \A t \in BagToSet(tasks') : t.pc \notin {"amnestyFetch", "amnestyReset"}
                                           \/ CopiesIn(t, tasks') = CopiesIn(t, tasks)
         \/ \A m \in ModMessages :
              (CREATOR_ID = NULL \/ m.author # CREATOR_ID) => ~MessageCreate(m)
      /\ \A t \in BagToSet(tasks) :
           /\ (t.pc = "amnestyFetch" /\ AmnestyFetchSettled(t)
               /\ sent' # << setNickname(t.userId, NULL) >>)
                => (~flagged(t.userId)' /\ sent' = << reply(t.message, GrantedText, SubSeq(t.message.content, 10, Len(t.message.content))) >>)
           /\ (t.pc = "amnestyReset" /\ AmnestyResetSettled(t))
                => ~flagged(t.userId)'
           /\ t.pc \in {"amnestyFetch", "amnestyReset"}
                => (CREATOR_ID # NULL /\ t.message.author = CREATOR_ID)
    ]_vars

\* the flag is gone and the amnesty acknowledged while the guild still shows
\* the label: the reset was not carried out
C8_Witness ==
  /\ ~flagged(User1)
  /\ Len(sent) = 1
  /\ sent[1].text = GrantedText
  /\ serverNick(User1) \in Labels
  /\ memberUpdates = << >>

\* C9: an amnesty command of the operator that names a user who is not in the
\* flag set changes neither the flag set nor the suspended handlers, requests
\* nothing of the guild and is answered "not currently marked".
C9_AmnestyOfUnflaggedIsNoOp ==
  [][ \A m \in ModMessages :
        ( /\ CREATOR_ID # NULL
          /\ m.author = CREATOR_ID
          /\ amnestyTarget(m) # NULL
          /\ ~flagged(amnestyTarget(m))
          /\ MessageCreate(m) ) =>
            /\ maggots' = maggots
            /\ tasks' = tasks
            /\ sent' = << reply(m, NotMarkedText, NULL) >>
    ]_vars

C9_Witness ==
  /\ CREATOR_ID = Operator
  /\ ~flagged(User1)
  /\ ~flagged(Operator)
  /\ sent = << Out("reply", Operator, NotMarkedText, NULL) >>

\* C10: the trigger phrases of the scenario classify as explicit triggers, and
\* every acknowledging reply that follows a rename the guild carried out goes
\* with the author's transition from unflagged to flagged with the label it
\* names, so that one transition is acknowledged once.
C10_OneAckPerTransition ==
  [][ /\ explicitTrigger(Text_Worthless)
      /\ explicitTrigger(Text_STFU)
      /\ explicitTrigger(Text_PleaseStfu)
      /\ \A t \in BagToSet(tasks) :
           (t.pc = "markMaggot" /\ t.applied /\ MarkMaggotSettled(t)) =>
             /\ sent' = << reply(t.message, AckText, t.nick) >>
             /\ t.nick \in Labels
             /\ ~flagged(t.userId)
             /\ \E e \in maggots' : e.id = t.userId /\ e.name = t.nick
    ]_vars


\* C21: a step that emits the acknowledging reply leaves its addressee in the
\* flag set with the label the reply names, and a step that re-applies a label
\* (the message handler's or the update handler's corrective rename, requested
\* or settled) emits no acknowledging reply.
C21_AckOnlyForSuccessfulAssignment ==
  [][ /\ \A i \in 1..Len(sent') :
           (sent' # sent /\ sent'[i].op = "reply" /\ sent'[i].text = AckText) =>
             \E e \in maggots' : e.id = sent'[i].to /\ e.name = sent'[i].arg
      /\ \A t \in BagToSet(tasks) :
           (t.pc \in {"enforce", "gmuRename"} /\ (EnforceSettled(t) \/ GmuRenameSettled(t))) =>
             \A i \in 1..Len(sent') : sent'[i].text # AckText
    ]_vars

\* C22: no step changes the label recorded for a user who is flagged before
\* and after it: an assignment that completes for an already flagged user
\* does not overwrite the label recorded by the assignment that completed
\* first.
C22_RecordedLabelIsStable ==
  [][ \A e1 \in maggots : \A e2 \in maggots' :
        e1.id = e2.id => e1.name = e2.name
    ]_vars

----------------------------------------------------------------------------
(* The memory store on its own: sequences of appendToMemory calls *)

MaxCap == 3
MaxAppends == 4
ScenarioAppends == 20

Speakers == { <<"a","l","f">>, <<"M","a","j","."," ","P","i","c","k","l","e","t","o","o","t","h">> }
TurnTexts == { <<"h","i">>, <<"s","a","y"," ","\"","x","\"">> }

\* one call appendToMemory(channelId, speaker, text), saveMemory included
AppendCall(channelId, speaker, text) ==
  /\ memoryMap' = appendToMemory(memoryMap, channelId, speaker, text, MAX_MEMORY_ENTRIES)
  /\ fs' = saveMemory(fs, memoryMap')
  /\ appended' = [appended EXCEPT ![channelId] = Append(@, [speaker |-> speaker, text |-> text])]
  /\ sent' = << >>
  /\ UNCHANGED << config, manualLog, aliasMap, lastResponseByChannel, maggots, now, nickname,
                  memberUpdates, tasks >>

InitMem == \E max \in 0..MaxCap : InitState(NULL, max, 5, 15)

NextMem ==
  \E ch \in Channels, sp \in Speakers, tx \in TurnTexts :
    /\ Len(appended[Channel1]) + Len(appended[Channel2]) < MaxAppends
    /\ AppendCall(ch, sp, tx)

SpecMem == InitMem /\ [][NextMem]_vars

\* the scenario of 20 sequential appends under the default maximum: the k-th
\* turn appended to a channel carries the text k
InitScenario == InitState(NULL, DefaultMaxMemory, 5, 15)

NextScenario ==
  \E ch \in Channels :
    /\ Len(appended[ch]) < ScenarioAppends
    /\ AppendCall(ch, <<"a","l","f">>, decimal(Len(appended[ch]) + 1))

SpecScenario == InitScenario /\ [][NextScenario]_vars

lastTurns(h, n) == SubSeq(h, Len(h) - n + 1, Len(h))

\* C1: with a configured maximum M >= 1, every channel's stored sequence is no
\* longer than M and is exactly the last min(n, M) of the n turns appended to
\* that channel, in arrival order (so it depends on no other channel's appends).
C1_BoundedFifo ==
  MAX_MEMORY_ENTRIES >= 1 =>
    \A c \in Channels :
      /\ Len(getMemory(memoryMap, c)) <= MAX_MEMORY_ENTRIES
      /\ getMemory(memoryMap, c)
           = lastTurns(appended[c], Min(Len(appended[c]), MAX_MEMORY_ENTRIES))

C1_Witness ==
  /\ MAX_MEMORY_ENTRIES = 2
  /\ Len(appended[Channel1]) = 3
  /\ Len(appended[Channel2]) = 1
  /\ Len(getMemory(memoryMap, Channel1)) = 2

\* C24: with a configured maximum of 0 every channel's stored sequence is
\* empty after any sequence of appends, in the store and in the memory file.
C24_CapOfZeroKeepsNothing ==
  MAX_MEMORY_ENTRIES = 0 =>
    /\ \A c \in Channels : Len(getMemory(memoryMap, c)) = 0
    /\ MEMORY_FILE \in DOMAIN fs =>
         LET saved == parseMemory(fs[MEMORY_FILE])
         IN  saved.ok /\ \A c \in DOMAIN saved.val : Len(saved.val[c]) = 0

\* C2 as amended: after 20 sequential appends under a maximum of 14 a channel
\* holds exactly 14 entries, the turns 7..20: the 6 oldest have been evicted.
C2_TwentyAppendsKeepLast14 ==
  \A c \in Channels :
    Len(appended[c]) = 20 =>
      /\ Len(getMemory(memoryMap, c)) = 14
      /\ getMemory(memoryMap, c) = SubSeq(appended[c], 7, 20)
      /\ getMemory(memoryMap, c)[1].text = <<"7">>
      /\ getMemory(memoryMap, c)[14].text = <<"2","0">>

C2_Witness ==
  /\ MAX_MEMORY_ENTRIES = 14
  /\ Len(appended[Channel1]) = 20
  /\ Len(getMemory(memoryMap, Channel1)) = 14

\* C2 as stated: 14 entries are left and the 7 oldest turns are gone.
C2_SevenOldestEvicted ==
  \A c \in Channels :
    Len(appended[c]) = 20 =>
      /\ Len(getMemory(memoryMap, c)) = 14
      /\ \A i \in 1..7 :
           \A j \in 1..Len(getMemory(memoryMap, c)) :
             getMemory(memoryMap, c)[j] # appended[c][i]

----------------------------------------------------------------------------
(* Trigger classification in the message handler *)

Text_Len10Padded == <<"h","e","l","l","o"," ","t","h","e","r"," ">>
Text_Len11 == <<"h","e","l","l","o"," ","t","h","e","r","e">>
Cmd_Long == <<"!","h","e","l","l","o"," ","t","h","e","r","e">>

TriggerMessages ==
  {Msg(User1, c, Channel1, TRUE, FALSE) : c \in {Text_STFU, Text_Len10Padded, Text_Len11, Cmd_Long}}
  \cup {Msg(User1, Text_Len11, Channel1, FALSE, FALSE)}

InitTrigger == \E degrade \in {0, DefaultDegradeChance} : InitState(NULL, DefaultMaxMemory, degrade, 0)

NextTrigger ==
  \/ \E m \in TriggerMessages : MessageCreate(m)
  \/ \E t \in BagToSet(tasks) : GuildApplies(t)
  \/ \E t \in BagToSet(tasks) : MarkMaggotSettled(t)
  \/ \E t \in BagToSet(tasks) : AckReplySettled(t)
  \/ \E t \in BagToSet(tasks) : EnforceSettled(t)
  \/ GuildMemberUpdate
  \/ \E t \in BagToSet(tasks) : GmuRenameSettled(t)

SpecTrigger == InitTrigger /\ [][NextTrigger]_vars

\* a step that begins an assignment: a markMaggot call is suspended at its rename
beginsAssignment ==
  \E t \in BagToSet(tasks') : t.pc = "markMaggot" /\ CopiesIn(t, tasks') > CopiesIn(t, tasks)

\* C11: a guild message of an unflagged author with an explicit trigger phrase
\* always begins an assignment, whatever the random draw and the configured
\* chance; an assignment is begun only for an unflagged guild author by a
\* non-command message that has an explicit trigger or, with a positive
\* chance, more than 10 characters after trimming; a message of a flagged
\* author begins none and leaves the flag set as it is.
C11_TriggersExclusive ==
  [][ \A m \in TriggerMessages :
        MessageCreate(m) =>
          LET raw == trim(m.content)
          IN  /\ ( /\ m.guild
                   /\ ~startsWith(raw, <<"!">>)
                   /\ ~flagged(m.author)
                   /\ explicitTrigger(raw) ) => beginsAssignment
              /\ beginsAssignment =>
                   /\ m.guild
                   /\ ~m.bot
                   /\ ~flagged(m.author)
                   /\ ~startsWith(raw, <<"!">>)
                   /\ \/ explicitTrigger(raw)
                      \/ Len(raw) > 10 /\ RANDOM_DEGRADE_CHANCE > 0
              /\ flagged(m.author) => (~beginsAssignment /\ maggots' = maggots)
    ]_vars

\* the random path has flagged an author for an 11-character message without a
\* trigger phrase, and a shorter message of that author is being handled
C11_Witness ==
  /\ \E e \in maggots : e.id = User1
  /\ \E t \in BagToSet(tasks) : t.pc = "ackReply" /\ t.message.content = Text_Len11
  /\ \E t \in BagToSet(tasks) : t.pc = "enforce" /\ t.message.content = Text_Len10Padded

----------------------------------------------------------------------------
(* The response gate on its own: calls of shouldRespond *)

Text_BotSirQ == <<"s","i","r","?">>
Text_Q == <<"?">>
Text_Sir == <<"s","i","r">>
Text_Len14 == <<"h","e","l","l","o"," ","t","h","e","r","e"," ","a","b">>
Text_Len15 == <<"h","e","l","l","o"," ","t","h","e","r","e"," ","a","b","c">>
Text_WhyNot == <<"W","H","Y"," ","N","O","T","?">>

GateMessages ==
  {Msg(User1, c, Channel1, TRUE, FALSE) :
     c \in {Text_Q, Text_Sir, Text_Len14, Text_Len15, Text_WhyNot}}
  \cup {Msg(User1, c, Channel1, TRUE, TRUE) : c \in {Text_BotSirQ, Text_Len15}}

\* the bot has answered in no channel, or in one channel at StartTime, and
\* Date.now() is around the end of the cooldown
InitGate ==
  \E chime \in {0, DefaultChimeChance, 100} :
    \E last \in {<< >>} \cup {[c \in {ch} |-> StartTime] : ch \in Channels} :
      \E elapsed \in {CooldownSeconds - 1, CooldownSeconds, CooldownSeconds + 1} :
        /\ CREATOR_ID = NULL
        /\ MAX_MEMORY_ENTRIES = DefaultMaxMemory
        /\ RANDOM_DEGRADE_CHANCE = DefaultDegradeChance
        /\ RANDOM_CHIME_CHANCE = chime
        /\ memoryMap = << >>
        /\ fs = << >>
        /\ aliasMap = << >>
        /\ manualLog = NULL
        /\ lastResponseByChannel = last
        /\ maggots = {}
        /\ now = StartTime + elapsed
        /\ nickname = [u \in {User1, Operator} |-> NULL]
        /\ memberUpdates = << >>
        /\ tasks = EmptyBag
        /\ sent = << >>
        /\ appended = [c \in Channels |-> << >>]

\* one call shouldRespond(message): the call and what it returned
GateCall(message, draw) ==
  /\ sent' = << Out("shouldRespond", message.author,
                    IF shouldRespond(message, draw, RANDOM_CHIME_CHANCE,
                                     lastResponseByChannel, now)
                    THEN "true" ELSE "false",
                    [message |-> message, draw |-> draw]) >>
  /\ UNCHANGED << config, manualLog, memoryMap, fs, appended, aliasMap, lastResponseByChannel,
                  maggots, now, nickname, memberUpdates, tasks >>

NextGate == \E m \in GateMessages, draw \in RandomDraws : GateCall(m, draw)

SpecGate == InitGate /\ [][NextGate]_vars

hasKeyword(content) ==
  \E i \in 1..Len(KEYWORDS) : includes(toLowerCase(content), KEYWORDS[i])

\* C12: shouldRespond returns false for every message of a bot, and true for
\* every message of a non-bot author that contains a question mark.
C12_BotNeverQuestionAlways ==
  \A i \in 1..Len(sent) :
    sent[i].op = "shouldRespond" =>
      LET m == sent[i].arg.message
      IN  /\ m.bot => sent[i].text = "false"
          /\ (~m.bot /\ includes(m.content, <<"?">>)) => sent[i].text = "true"

\* a one-character question without keyword is approved with chance 0 inside
\* the cooldown
C12_Witness ==
  /\ sent # << >>
  /\ sent[1].op = "shouldRespond"
  /\ sent[1].arg.message = Msg(User1, Text_Q, Channel1, TRUE, FALSE)
  /\ sent[1].text = "true"
  /\ RANDOM_CHIME_CHANCE = 0
  /\ Channel1 \in DOMAIN lastResponseByChannel
  /\ now - lastResponseByChannel[Channel1] < CooldownSeconds

\* C13: for a non-bot message without keyword and without question mark,
\* shouldRespond returns true exactly when the text has at least 15
\* characters, the draw is below the chime chance, and the channel has no
\* recorded response or at least 10 seconds have passed since it.
C13_ChimeIffLongLuckyAndCooledDown ==
  \A i \in 1..Len(sent) :
    sent[i].op = "shouldRespond" =>
      LET m == sent[i].arg.message
          draw == sent[i].arg.draw
      IN  (~m.bot /\ ~hasKeyword(m.content) /\ ~includes(m.content, <<"?">>)) =>
            ( sent[i].text = "true" <=>
                /\ Len(m.content) >= 15
                /\ draw < RANDOM_CHIME_CHANCE
                /\ \/ m.channel \notin DOMAIN lastResponseByChannel
                   \/ now - lastResponseByChannel[m.channel] >= 10 )

----------------------------------------------------------------------------
(* Saving the memory under process crashes: writeJsonAtomic call by call *)

MaxCrashAppends == 2
ChunkTokens == 5

CrashTexts == { <<"h","i">>, <<"s","a","y"," ","\"","x","\"">>, <<"a","\\","b">> }

\* appendToMemory up to the first system call of its saveMemory
CrashAppend(channelId, speaker, text) ==
  /\ tasks = EmptyBag
  /\ Len(appended[Channel1]) + Len(appended[Channel2]) < MaxCrashAppends
  /\ memoryMap' = appendToMemory(memoryMap, channelId, speaker, text, MAX_MEMORY_ENTRIES)
  /\ appended' = [appended EXCEPT ![channelId] = Append(@, [speaker |-> speaker, text |-> text])]
  /\ tasks' = SetToBag({Task("saveOpen", NoMessage, NULL, NULL)})
  /\ sent' = << >>
  /\ UNCHANGED << config, manualLog, fs, aliasMap, lastResponseByChannel, maggots, now, nickname,
                  memberUpdates >>

\* writeFileSync opens the temporary file
SaveOpen(t) ==
  /\ t.pc = "saveOpen"
  /\ fs' = openTruncate(fs, tmpOf(MEMORY_FILE))
  /\ tasks' = SetToBag({Task("saveWrite", NoMessage, NULL, NULL)})
  /\ sent' = << >>
  /\ UNCHANGED << config, manualLog, memoryMap, appended, aliasMap, lastResponseByChannel, maggots,
                  now, nickname, memberUpdates >>

\* writeFileSync writes the next piece of JSON.stringify(memoryMap)
SaveWrite(t) ==
  /\ t.pc = "saveWrite"
  /\ LET text == stringifyMemory(memoryMap)
         done == Len(fs[tmpOf(MEMORY_FILE)])
         upto == Min(done + ChunkTokens, Len(text))
     IN  /\ fs' = writeChunk(fs, tmpOf(MEMORY_FILE), SubSeq(text, done + 1, upto))
         /\ tasks' = SetToBag({Task(IF upto = Len(text) THEN "saveRename" ELSE "saveWrite",
                                    NoMessage, NULL, NULL)})
  /\ sent' = << >>
  /\ UNCHANGED << config, manualLog, memoryMap, appended, aliasMap, lastResponseByChannel, maggots,
                  now, nickname, memberUpdates >>

\* renameSync moves the temporary file into place; appendToMemory returns
SaveRename(t) ==
  /\ t.pc = "saveRename"
  /\ fs' = renameSync(fs, tmpOf(MEMORY_FILE), MEMORY_FILE)
  /\ tasks' = EmptyBag
  /\ sent' = << >>
  /\ UNCHANGED << config, manualLog, memoryMap, appended, aliasMap, lastResponseByChannel, maggots,
                  now, nickname, memberUpdates >>

\* the process stops, wherever it is, and is started again: the module is
\* loaded from the data directory as the stopped process left it
CrashRestart ==
  /\ memoryMap' = readMemorySafe(fs, << >>)
  /\ tasks' = EmptyBag
  /\ sent' = << >>
  /\ UNCHANGED << config, manualLog, fs, appended, aliasMap, lastResponseByChannel, maggots, now,
                  nickname, memberUpdates >>

InitCrash == \E max \in 1..2 : InitState(NULL, max, DefaultDegradeChance, DefaultChimeChance)

NextCrash ==
  \/ \E ch \in Channels, tx \in CrashTexts : CrashAppend(ch, <<"a","l","f">>, tx)
  \/ \E t \in BagToSet(tasks) : SaveOpen(t)
  \/ \E t \in BagToSet(tasks) : SaveWrite(t)
  \/ \E t \in BagToSet(tasks) : SaveRename(t)
  \/ CrashRestart

SpecCrash == InitCrash /\ [][NextCrash]_vars

\* the committed memory file is absent or a complete document
committedReadable(files) ==
  MEMORY_FILE \in DOMAIN files => parseMemory(files[MEMORY_FILE]).ok

\* C14: every step of a save, and a stop of the process after any of them,
\* leaves the committed file absent or a complete document, whose value is the
\* one it held before the step or the complete new store; a restart loads that
\* value; and when the save has completed the committed file loads as a value
\* equal to the store that was saved.
C14_SaveIsCrashAtomic ==
  [][ /\ committedReadable(fs')
      /\ readMemorySafe(fs', << >>) \in {readMemorySafe(fs, << >>), memoryMap'}
      /\ CrashRestart => memoryMap' = readMemorySafe(fs', << >>)
      /\ \A t \in BagToSet(tasks) :
           (t.pc = "saveRename" /\ SaveRename(t)) =>
             /\ MEMORY_FILE \in DOMAIN fs'
             /\ parseMemory(fs'[MEMORY_FILE]) = [ok |-> TRUE, val |-> memoryMap, rest |-> << >>]
    ]_vars

\* the process was stopped in the middle of writing the second save: the
\* temporary file is a proper prefix of a document, the committed file still
\* holds the first save, and the restarted process has loaded it
C14_Witness ==
  /\ tasks = EmptyBag
  /\ tmpOf(MEMORY_FILE) \in DOMAIN fs
  /\ ~parseMemory(fs[tmpOf(MEMORY_FILE)]).ok
  /\ fs[tmpOf(MEMORY_FILE)] # << >>
  /\ MEMORY_FILE \in DOMAIN fs
  /\ memoryMap = parseMemory(fs[MEMORY_FILE]).val
  /\ \E c \in Channels : Len(appended[c]) = 2 /\ Len(getMemory(memoryMap, c)) = 1
                         /\ getMemory(memoryMap, c)[1].text = <<"a","\\","b">>

----------------------------------------------------------------------------
(* Loading the data directory at startup: readJsonSafe *)

MaxLoadAppends == 1

SampleStore ==
  [c \in {Channel1} |-> << [speaker |-> <<"a","l","f">>, text |-> <<"s","a","y"," ","\"","x","\"">>] >>]
SampleAliases == [u \in {User1} |-> <<"A","c","e">>]

prefixes(doc) == {SubSeq(doc, 1, n) : n \in 0..Len(doc)}

\* what a file of the data directory may hold: a document this program saved,
\* a document cut short, or text that is not JSON
MemoryFiles == prefixes(stringifyMemory(SampleStore)) \cup { << <<"o","o","p","s">> >> }
AliasFiles == prefixes(stringifyAliases(SampleAliases)) \cup { << <<"{">>, <<"{">> >> }

DataDirs ==
  { [p \in {} |-> << >>] }
  \cup { [p \in {MEMORY_FILE} |-> m] : m \in MemoryFiles }
  \cup { [p \in {ALIAS_FILE} |-> a] : a \in AliasFiles }
  \cup { [p \in {MEMORY_FILE, ALIAS_FILE} |-> IF p = MEMORY_FILE THEN mf[1] ELSE mf[2]] :
           mf \in MemoryFiles \X AliasFiles }

\* the process has not been started: the data directory is whatever was left
InitLoad ==
  \E dir \in DataDirs :
    /\ CREATOR_ID = NULL
    /\ MAX_MEMORY_ENTRIES = DefaultMaxMemory
    /\ RANDOM_DEGRADE_CHANCE = DefaultDegradeChance
    /\ RANDOM_CHIME_CHANCE = DefaultChimeChance
    /\ memoryMap = << >>
    /\ fs = dir
    /\ aliasMap = << >>
    /\ manualLog = NULL
    /\ lastResponseByChannel = << >>
    /\ maggots = {}
    /\ now = StartTime
    /\ nickname = [u \in {User1, Operator} |-> NULL]
    /\ memberUpdates = << >>
    /\ tasks = EmptyBag
    /\ sent = << >>
    /\ appended = [c \in Channels |-> << >>]

\* the module is loaded: aliasMap and memoryMap are read, then client.login
Startup ==
  /\ sent = << >>
  /\ appended = [c \in Channels |-> << >>]
  /\ aliasMap' = readAliasesSafe(fs, << >>)
  /\ memoryMap' = readMemorySafe(fs, << >>)
  /\ manualLog' = readManualLog(fs)
  /\ sent' = << Out("login", NULL, "", NULL) >>
  /\ UNCHANGED << config, fs, appended, lastResponseByChannel, maggots, now, nickname,
                  memberUpdates, tasks >>

\* one call readJsonSafe(MEMORY_FILE, fallback): the call and what it returned
ReadCall(fallback) ==
  /\ sent = << >>
  /\ sent' = << Out("readJsonSafe", MEMORY_FILE, "",
                    [fallback |-> fallback, returned |-> readMemorySafe(fs, fallback)]) >>
  /\ UNCHANGED << config, manualLog, memoryMap, fs, appended, aliasMap, lastResponseByChannel,
                  maggots, now, nickname, memberUpdates, tasks >>

NextLoad ==
  \/ Startup
  \/ \E fallback \in {<< >>, SampleStore} : ReadCall(fallback)
  \/ \E tx \in TurnTexts :
       /\ sent # << >>
       /\ sent[1].op = "login"
       /\ Len(appended[Channel1]) < MaxLoadAppends
       /\ AppendCall(Channel1, <<"a","l","f">>, tx)

SpecLoad == InitLoad /\ [][NextLoad]_vars

memoryLoadable(files) == MEMORY_FILE \in DOMAIN files /\ parseMemory(files[MEMORY_FILE]).ok
aliasesLoadable(files) == ALIAS_FILE \in DOMAIN files /\ parseAliases(files[ALIAS_FILE]).ok

\* C15: readJsonSafe returns the caller's fallback for a file that is missing
\* or does not parse, and the parsed value otherwise; a process started on a
\* data directory whose files are missing or do not parse has an empty memory
\* store and an empty alias map.
C15_LoadFallsBackToDefault ==
  /\ \A i \in 1..Len(sent) :
       sent[i].op = "readJsonSafe" =>
         sent[i].arg.returned =
           IF memoryLoadable(fs) THEN parseMemory(fs[MEMORY_FILE]).val
           ELSE sent[i].arg.fallback
  /\ (sent # << >> /\ sent[1].op = "login") =>
       /\ memoryMap = IF memoryLoadable(fs) THEN parseMemory(fs[MEMORY_FILE]).val ELSE << >>
       /\ aliasMap = IF aliasesLoadable(fs) THEN parseAliases(fs[ALIAS_FILE]).val ELSE << >>

\* a process has started on a memory file cut short and no alias file, with
\* an empty store and an empty alias map
C15_Witness ==
  /\ sent # << >>
  /\ sent[1].op = "login"
  /\ MEMORY_FILE \in DOMAIN fs
  /\ fs[MEMORY_FILE] # << >>
  /\ ~parseMemory(fs[MEMORY_FILE]).ok
  /\ ALIAS_FILE \notin DOMAIN fs
  /\ memoryMap = << >>
  /\ aliasMap = << >>

----------------------------------------------------------------------------
(* Conversation: messages through moderation, gate, memory and reply *)

MaxChatTurns == 2

ChatMessages ==
  {Msg(User1, c, Channel1, TRUE, FALSE) : c \in {Text_STFU, Text_WhyNot, Text_Len14}}
  \cup {Msg(Operator, Text_Sir, Channel1, TRUE, FALSE)}

InitChat == \E max \in 1..2 : InitState(NULL, max, 0, 0)

NextChat ==
  \/ \E m \in ChatMessages :
       /\ Len(appended[Channel1]) < MaxChatTurns
       /\ MessageCreate(m)
  \/ \E t \in BagToSet(tasks) : GuildApplies(t)
  \/ \E t \in BagToSet(tasks) : MarkMaggotSettled(t)
  \/ \E t \in BagToSet(tasks) : AckReplySettled(t)
  \/ \E t \in BagToSet(tasks) : EnforceSettled(t)
  \/ GuildMemberUpdate
  \/ \E t \in BagToSet(tasks) : GmuRenameSettled(t)
  \/ \E t \in BagToSet(tasks) : GenerateSettled(t)

SpecChat == InitChat /\ [][NextChat]_vars

\* C16: at every state the memory file, once written, is a complete document
\* equal to the in-memory store; every channel that has received a turn holds
\* the turn appended last as its last turn; and no persisted channel sequence
\* is longer than the configured maximum.
C16_WriteThrough ==
  /\ MEMORY_FILE \notin DOMAIN fs => (memoryMap = << >> /\ \A c \in Channels : appended[c] = << >>)
  /\ MEMORY_FILE \in DOMAIN fs =>
       /\ parseMemory(fs[MEMORY_FILE]) = [ok |-> TRUE, val |-> memoryMap, rest |-> << >>]
       /\ \A c \in DOMAIN parseMemory(fs[MEMORY_FILE]).val :
            Len(parseMemory(fs[MEMORY_FILE]).val[c]) <= MAX_MEMORY_ENTRIES
       /\ \A c \in Channels :
            appended[c] # << >> =>
              /\ c \in DOMAIN parseMemory(fs[MEMORY_FILE]).val
              /\ LET stored == parseMemory(fs[MEMORY_FILE]).val[c]
                 IN  stored # << >> /\ stored[Len(stored)] = appended[c][Len(appended[c])]

\* two handlers of one channel have interleaved: both users' turns were
\* appended before the first reply, the second generation call is still
\* pending, and the store has been trimmed
C16_Witness ==
  /\ Len(appended[Channel1]) = 3
  /\ appended[Channel1][1].speaker # BotSpeaker
  /\ appended[Channel1][2].speaker # BotSpeaker
  /\ appended[Channel1][3].speaker = BotSpeaker
  /\ \E t \in BagToSet(tasks) : t.pc = "generate"
  /\ Len(getMemory(memoryMap, Channel1)) = MAX_MEMORY_ENTRIES
  /\ MEMORY_FILE \in DOMAIN fs
  /\ parseMemory(fs[MEMORY_FILE]).val = memoryMap

\* C17: respondWithIntel returns the fixed failure text when the generation
\* call throws, the fixed no-response text when it returns no text or white
\* space only, and never an empty string; a message the gate approves leaves
\* its handler waiting for the generation call, and when that call settles,
\* however, the handler replies with the returned text, appends it as the
\* bot's turn and sets the channel's last-response time.
C17_AlwaysReplies ==
  [][ /\ \A o \in GenerateOutcomes :
           /\ intelReply(o) # NULL
           /\ o.threw => intelReply(o) = FailedText
           /\ (~o.threw /\ trim(o.text) = NULL) => intelReply(o) = NoResponseText
      /\ \A m \in ChatMessages :
           (MessageCreate(m) /\ appended' # appended) =>
             \E t \in BagToSet(tasks') :
               /\ t.pc = "generate"
               /\ t.message = m
               /\ CopiesIn(t, tasks') > CopiesIn(t, tasks)
      /\ \A t \in BagToSet(tasks) :
           (t.pc = "generate" /\ GenerateSettled(t)) =>
             LET c == t.message.channel
                 turn == appended'[c][Len(appended'[c])]
             IN  /\ Len(appended'[c]) = Len(appended[c]) + 1
                 /\ turn.speaker = BotSpeaker
                 /\ turn.text # NULL
                 /\ turn.text \in {intelReply(o) : o \in GenerateOutcomes}
                 /\ sent' = << reply(t.message, "${reply}", turn.text) >>
                 /\ getMemory(memoryMap', c)[Len(getMemory(memoryMap', c))] = turn
                 /\ c \in DOMAIN lastResponseByChannel'
                 /\ lastResponseByChannel'[c] = now
    ]_vars

\* the generation call threw and the handler replied with the failure text
C17_Witness ==
  /\ sent # << >>
  /\ sent[1].op = "reply"
  /\ sent[1].arg = FailedText
  /\ appended[Channel1] # << >>
  /\ appended[Channel1][Len(appended[Channel1])] = [speaker |-> BotSpeaker, text |-> FailedText]
  /\ Channel1 \in DOMAIN lastResponseByChannel

\* C20: a message of a flagged author, and a message that causes its author
\* to be flagged, goes no further than the moderation step: handling it
\* appends nothing to memory and starts no generation call, neither at once
\* nor after the acknowledgement or the re-applied rename has settled.
C20_FlaggedStopAtModeration ==
  [][ /\ \A m \in ChatMessages :
           (mapHas(maggots, m.author) /\ MessageCreate(m)) =>
             /\ appended' = appended
             /\ \A t \in BagToSet(tasks') :
                  t.pc = "generate" => CopiesIn(t, tasks') <= CopiesIn(t, tasks)
      /\ \A t \in BagToSet(tasks) :
           (t.pc \in {"ackReply", "enforce"} /\ (AckReplySettled(t) \/ EnforceSettled(t))) =>
             /\ appended' = appended
             /\ \A u \in BagToSet(tasks') :
                  u.pc = "generate" => CopiesIn(u, tasks') <= CopiesIn(u, tasks)
    ]_vars

----------------------------------------------------------------------------
(* Failures of a reply send.  The replies of handleCommand (but those inside *)
(* the try blocks of nick and createchannel) and the reply that ends the     *)
(* message handler are awaited outside any try block; the module registers   *)
(* no 'error' listener and no process-level handler.                          *)

FailureMessages ==
  ChatMessages \cup {Msg(User1, Cmd_Dance, Channel1, TRUE, FALSE)}

\* the process is up: no rejection has left a handler
running == \A i \in 1..Len(sent) : sent[i].op # "uncaughtRejection"

\* message.reply(...) awaited outside a try block resolved (the handler
\* returns), or was rejected: the handler's promise rejects with nothing to
\* catch it
ReplySettled ==
  /\ Len(sent) = 1
  /\ sent[1].op = "reply"
  /\ sent[1].text # AckText
  /\ \E ok \in BOOLEAN :
       sent' = IF ok THEN << >>
               ELSE << Out("uncaughtRejection", sent[1].to, sent[1].text, sent[1].arg) >>
  /\ UNCHANGED << config, manualLog, memoryMap, fs, appended, aliasMap, lastResponseByChannel,
                  maggots, now, nickname, memberUpdates, tasks >>

InitFailure == \E max \in 1..2 : InitState(NULL, max, 0, 0)

NextFailure ==
  \/ \E m \in FailureMessages :
       /\ running
       /\ Len(appended[Channel1]) < MaxChatTurns
       /\ MessageCreate(m)
  \/ \E t \in BagToSet(tasks) : running /\ GuildApplies(t)
  \/ \E t \in BagToSet(tasks) : running /\ MarkMaggotSettled(t)
  \/ \E t \in BagToSet(tasks) : running /\ AckReplySettled(t)
  \/ \E t \in BagToSet(tasks) : running /\ EnforceSettled(t)
  \/ running /\ GuildMemberUpdate
  \/ \E t \in BagToSet(tasks) : running /\ GmuRenameSettled(t)
  \/ \E t \in BagToSet(tasks) : running /\ GenerateSettled(t)
  \/ ReplySettled

SpecFailure == InitFailure /\ [][NextFailure]_vars

\* C18: no failure raised while a message is handled leaves the handler: a
\* rejected reply send is caught inside the handler that awaits it.
C18_NoFailureEscapes == running

----------------------------------------------------------------------------
(* Commands: who may change the alias map, the manual log and the flag set *)

Cmd_Alias == <<"!","a","l","i","a","s"," ","<","@","1",">"," ","A","c","e">>
Cmd_AliasNoCallsign == <<"!","a","l","i","a","s"," ","<","@","1",">">>
Cmd_SetAliasBob == <<"!","s","e","t","a","l","i","a","s"," ","b","o","b"," ","A","c","e">>
Cmd_Unalias == <<"!","u","n","a","l","i","a","s"," ","<","@","!","1",">">>
Cmd_UnaliasNoArg == <<"!","u","n","a","l","i","a","s">>
Cmd_UnaliasBob == <<"!","u","n","a","l","i","a","s"," ","b","o","b">>
Cmd_Nick == <<"!","n","i","c","k"," ","<","@","1",">"," ","B","o","b">>
Cmd_NickNoName == <<"!","n","i","c","k"," ","<","@","1",">">>
Cmd_NickBob == <<"!","n","i","c","k"," ","b","o","b"," ","B","o","b">>
Cmd_CreateChannel == <<"!","c","r","e","a","t","e","c","h","a","n","n","e","l"," ","W","a","r"," ","R","o","o","m">>
Cmd_CreateChannelNoArg == <<"!","c","r","e","a","t","e","c","h","a","n","n","e","l">>
Cmd_LoadLog == <<"!","l","o","a","d","l","o","g"," ","h","o","l","d"," ","f","a","s","t">>
Cmd_LoadLogNoArg == <<"!","l","o","a","d","l","o","g">>
Cmd_Parse == <<"!","p","a","r","s","e">>

CommandMessages ==
  {Msg(a, c, Channel1, TRUE, FALSE) :
     a \in {User1, Operator},
     c \in {Cmd_Alias, Cmd_Unalias, Cmd_Nick, Cmd_CreateChannel, Cmd_LoadLog, Cmd_Amnesty1}}
  \cup {Msg(Operator, c, Channel1, TRUE, FALSE) :
          c \in {Cmd_AliasNoCallsign, Cmd_SetAliasBob, Cmd_UnaliasNoArg, Cmd_UnaliasBob,
                 Cmd_NickNoName, Cmd_NickBob, Cmd_CreateChannelNoArg, Cmd_LoadLogNoArg,
                 Cmd_AmnestyNoArg, Cmd_AmnestyBob}}
  \cup {Msg(User1, c, Channel1, TRUE, FALSE) : c \in {Cmd_Dance, Cmd_Parse, Text_STFU, Text_WhyNot}}
  \cup {Msg(Operator, Cmd_Nick, Channel1, FALSE, FALSE)}

InitCommands == \E creator \in {NULL, Operator} : InitState(creator, DefaultMaxMemory, 0, 0)

\* handlers in progress at a time
MaxCommandHandlers == 1

NextCommands ==
  \/ \E m \in CommandMessages :
       /\ BagCardinality(tasks) < MaxCommandHandlers
       /\ Len(appended[Channel1]) < MaxChatTurns
       /\ MessageCreate(m)
  \/ \E t \in BagToSet(tasks) : GuildApplies(t)
  \/ \E t \in BagToSet(tasks) : MarkMaggotSettled(t)
  \/ \E t \in BagToSet(tasks) : AckReplySettled(t)
  \/ \E t \in BagToSet(tasks) : EnforceSettled(t)
  \/ \E t \in BagToSet(tasks) : AmnestyFetchSettled(t)
  \/ \E t \in BagToSet(tasks) : AmnestyResetSettled(t)
  \/ \E t \in BagToSet(tasks) : NickFetchSettled(t)
  \/ \E t \in BagToSet(tasks) : NickRenameSettled(t)
  \/ \E t \in BagToSet(tasks) : CreateChannelSettled(t)
  \/ GuildMemberUpdate
  \/ \E t \in BagToSet(tasks) : GmuRenameSettled(t)
  \/ \E t \in BagToSet(tasks) : GenerateSettled(t)

SpecCommands == InitCommands /\ [][NextCommands]_vars

isCommand(m) == ~m.bot /\ startsWith(trim(m.content), <<"!">>)
commandParts(m) == splitWs(trim(slice(trim(m.content), 1)))
commandWord(m) == toLowerCase(commandParts(m)[1])
commandArgs(m) == Tail(commandParts(m))

privilegedWords ==
  aliasWords \cup amnestyWords
  \cup { <<"l","o","a","d","l","o","g">>, <<"u","n","a","l","i","a","s">>, <<"n","i","c","k">>,
         <<"c","r","e","a","t","e","c","h","a","n","n","e","l">> }
knownWords == privilegedWords \cup { <<"p","a","r","s","e">> }

\* the number of arguments a command requires
requiredArgs(w) ==
  IF w \in aliasWords \cup { <<"n","i","c","k">> } THEN 2
  ELSE IF w \in privilegedWords THEN 1
  ELSE 0

\* the commands whose first argument is a mention
takesMention(w) ==
  w \in aliasWords \cup amnestyWords \cup { <<"u","n","a","l","i","a","s">>, <<"n","i","c","k">> }

unknownCommand(m) == commandWord(m) \notin knownWords
notOperator(m) ==
  /\ commandWord(m) \in privilegedWords
  /\ ~(CREATOR_ID # NULL /\ m.author = CREATOR_ID)
malformed(m) ==
  /\ commandWord(m) \in knownWords
  /\ \/ Len(commandArgs(m)) < requiredArgs(commandWord(m))
     \/ /\ takesMention(commandWord(m))
        /\ commandArgs(m) # << >>
        /\ matchMention(commandArgs(m)[1]) = NULL

refused(m) == isCommand(m) /\ (unknownCommand(m) \/ notOperator(m) \/ malformed(m))

\* C19: a step that changes the alias map, the manual log, the flag set, the
\* memory store or a file, that starts or ends a handler's wait (a rename, a
\* fetch, a channel creation), or that sends anything but one reply, is not
\* the handling of a command that is unknown, malformed (an argument missing,
\* a mention that does not parse) or privileged and not sent by the operator;
\* and the alias map changes only in a step that handles an alias, setalias
\* or unalias command of the operator.
C19_RefusedCommandsChangeNothing ==
  [][ /\ ( \/ aliasMap' # aliasMap
           \/ manualLog' # manualLog
           \/ maggots' # maggots
           \/ memoryMap' # memoryMap
           \/ fs' # fs
           \/ tasks' # tasks
           \/ Len(sent') # 1
           \/ sent'[1].op # "reply" ) =>
           \A m \in CommandMessages : refused(m) => ~MessageCreate(m)
      /\ (aliasMap' # aliasMap) =>
           \E m \in CommandMessages :
             /\ isCommand(m)
             /\ CREATOR_ID # NULL
             /\ m.author = CREATOR_ID
             /\ commandWord(m) \in aliasWords \cup { <<"u","n","a","l","i","a","s">> }
             /\ MessageCreate(m)
    ]_vars

\* a member other than the operator was refused the removal of an alias the
\* operator had set, with a manual log loaded and a user flagged
C19_Witness ==
  /\ sent # << >>
  /\ sent[1].op = "reply"
  /\ sent[1].text = "Only the creator can remove aliases."
  /\ User1 \in DOMAIN aliasMap
  /\ manualLog # NULL
  /\ mapHas(maggots, User1)

----------------------------------------------------------------------------
(* The cooldown of the random chime while generation calls are in flight *)

TickSeconds == 5
MaxTicks == 3
MaxChimeTurns == 4

ChimeMessages == {Msg(User1, Text_Len15, c, TRUE, FALSE) : c \in Channels}

\* time passes
Tick ==
  /\ now < StartTime + MaxTicks * TickSeconds
  /\ now' = now + TickSeconds
  /\ sent' = << >>
  /\ UNCHANGED << config, manualLog, memoryMap, fs, appended, aliasMap, lastResponseByChannel,
                  maggots, nickname, memberUpdates, tasks >>

InitChime == InitState(NULL, DefaultMaxMemory, 0, DefaultChimeChance)

NextChime ==
  \/ \E m \in ChimeMessages :
       /\ Len(appended[m.channel]) < MaxChimeTurns
       /\ MessageCreate(m)
  \/ \E t \in BagToSet(tasks) : GenerateSettled(t)
  \/ Tick

SpecChime == InitChime /\ [][NextChime]_vars

\* the message has neither a keyword nor a question mark
chimeOnly(m) ==
  /\ ~\E i \in 1..Len(KEYWORDS) : includes(toLowerCase(m.content), KEYWORDS[i])
  /\ ~includes(m.content, <<"?">>)

\* C23: when the gate approves a message by the random chime, more than the
\* cooldown has passed since every earlier approval by the random chime in the
\* same channel: since the one whose generation call is still in flight, and
\* since the last response the channel has on record.
C23_OneChimePerCooldown ==
  [][ \A m \in ChimeMessages :
        (chimeOnly(m) /\ MessageCreate(m) /\ appended' # appended) =>
          /\ \A t \in BagToSet(tasks) :
               ( /\ t.pc = "generate"
                 /\ t.message.channel = m.channel
                 /\ chimeOnly(t.message) ) => now - t.at > CooldownSeconds
          /\ m.channel \in DOMAIN lastResponseByChannel =>
               now - lastResponseByChannel[m.channel] > CooldownSeconds
    ]_vars

====
